---- MODULE Spec2Model ----
(***************************************************************************)
(* Model of kovbando/Videomaker_python.                                    *)
(*                                                                         *)
(*   program.py  main: list pictures, group them by developer tag, encode  *)
(*               every group concurrently (ThreadPoolExecutor.map), then   *)
(*               compose the clips into a 2x2 grid.        -> Spec         *)
(*   program.py  group_images_by_developer as a pure function of its       *)
(*               arguments.                                -> GroupSpec    *)
(*   rename.py   rename_files_in_folder, run twice on one folder.          *)
(*                                                         -> RenameSpec   *)
(*                                                                         *)
(* File names and paths are sequences of one-character strings, so that    *)
(* split, basename, startswith, endswith, lower, the regular expression,   *)
(* int() and the 06 format are computed, not assumed.                      *)
(***************************************************************************)
EXTENDS Integers, Sequences, FiniteSets, TLC

VARIABLES
    \* ---- program.py, main ------------------------------------------------
    pc,                   \* position of the main thread
    pictures,             \* os.listdir(img_folder)
    cpu_count,            \* os.cpu_count() of the host
    images,               \* get_images_from_folder(img_folder)
    groups,               \* list(grouped_images.values())[:4]
    fut,                  \* the futures of executor.map, by group index
    step,                 \* position of each create_video_from_group call
    tool_exit,            \* how each group's external tool ended
    work_queue,           \* the executor's work queue (group indexes)
    intermediate_videos,  \* the list collected from executor.map
    raised,               \* an exception is propagating out of the with block
    files,                \* scratch directory: path -> absent/partial/complete
    writers,              \* path -> the encoder calls that have it open for writing
    grid_inputs,          \* the -i arguments of the grid command
    overtaken,            \* history: a call returned before one of a lower group index
    \* ---- program.py, group_images_by_developer alone ---------------------
    g_pc, g_images, g_limit, g_out,
    \* ---- rename.py -------------------------------------------------------
    r_pc,                 \* position inside rename_files_in_folder
    r_platform,           \* "posix" or "nt": what os.rename does on an existing target
    r_exists,             \* the folder exists
    r_folder,             \* the names in the folder
    r_initial,            \* the folder before the first pass
    r_after1,             \* the folder after the first pass
    r_listing,            \* os.listdir(folder_path) of the current pass
    r_idx,                \* number of listing entries the loop has taken
    r_pass,               \* 1 or 2
    r_log,                \* the os.rename calls of the current pass that succeeded
    r_err                 \* what the current pass reported

mainVars == <<pc, pictures, cpu_count, images, groups, fut, step, tool_exit, work_queue,
              intermediate_videos, raised, files, writers, grid_inputs, overtaken>>
groupVars == <<g_pc, g_images, g_limit, g_out>>
renameVars == <<r_pc, r_platform, r_exists, r_folder, r_initial, r_after1,
                r_listing, r_idx, r_pass, r_log, r_err>>
vars == <<mainVars, groupVars, renameVars>>

----------------------------------------------------------------------------
(* Bounds of the model *)

MaxTags == 5
MaxCpu == 2
MaxImages == 3
MaxLimit == 3
MaxFiles == 3

----------------------------------------------------------------------------
(* Strings *)

Min(a, b) == IF a < b THEN a ELSE b

Max(a, b) == IF a < b THEN b ELSE a

SeqRange(s) == {s[k] : k \in 1..Len(s)}

UpperChars == <<"A","B","C","D","E","F","G","H","I","J","K","L","M",
                "N","O","P","Q","R","S","T","U","V","W","X","Y","Z">>

LowerChars == <<"a","b","c","d","e","f","g","h","i","j","k","l","m",
                "n","o","p","q","r","s","t","u","v","w","x","y","z">>

DigitChars == <<"0","1","2","3","4","5","6","7","8","9">>

DigitSet == SeqRange(DigitChars)

UpperSet == SeqRange(UpperChars)

\* \d
IsDigit(c) == c \in DigitSet

\* str.lower()
LowerChar(c) ==
    IF c \in UpperSet
    THEN LowerChars[CHOOSE k \in 1..Len(UpperChars) : UpperChars[k] = c]
    ELSE c

Lower(s) == [k \in 1..Len(s) |-> LowerChar(s[k])]

\* str.startswith / str.endswith
StartsWith(s, p) == Len(p) <= Len(s) /\ SubSeq(s, 1, Len(p)) = p

EndsWith(s, p) == Len(p) <= Len(s) /\ SubSeq(s, Len(s) - Len(p) + 1, Len(s)) = p

\* os.path.join(a, b) for a relative b
PathJoin(a, b) == a \o <<"/">> \o b

\* os.path.basename: what follows the last "/"
Basename(p) ==
    LET slashes == {k \in 1..Len(p) : p[k] = "/"}
    IN  IF slashes = {} THEN p
        ELSE SubSeq(p, (CHOOSE k \in slashes : \A j \in slashes : j <= k) + 1, Len(p))

\* filename.split('_')[0]: what precedes the first "_"
FirstPart(s) ==
    LET us == {k \in 1..Len(s) : s[k] = "_"}
    IN  IF us = {} THEN s
        ELSE SubSeq(s, 1, (CHOOSE k \in us : \A j \in us : k <= j) - 1)

\* str(n) for n >= 0
RECURSIVE IntToStr(_)
IntToStr(n) ==
    IF n < 10 THEN <<DigitChars[n + 1]>>
    ELSE IntToStr(n \div 10) \o <<DigitChars[(n % 10) + 1]>>

DigitValue(c) == (CHOOSE k \in 1..10 : DigitChars[k] = c) - 1

\* int(s) for a run of digits
RECURSIVE StrToInt(_)
StrToInt(s) ==
    IF Len(s) = 0 THEN 0
    ELSE 10 * StrToInt(SubSeq(s, 1, Len(s) - 1)) + DigitValue(s[Len(s)])

\* f"{n:06}"
RECURSIVE ZeroPad(_, _)
ZeroPad(s, width) == IF Len(s) >= width THEN s ELSE ZeroPad(<<"0">> \o s, width)

PadWidth == 6

Format06(n) == ZeroPad(IntToStr(n), PadWidth)

Dev == <<"D","e","v">>
PNG == <<".","p","n","g">>
FN == <<"_","f","n">>

----------------------------------------------------------------------------
(* program.py: get_images_from_folder, group_images_by_developer *)

valid_extensions ==
    { PNG, <<".","j","p","g">>, <<".","j","p","e","g">>, <<".","b","m","p">>,
      <<".","t","i","f","f">>, <<".","w","e","b","p">> }

IsValidImage(f) == LET low == Lower(f) IN \E e \in valid_extensions : EndsWith(low, e)

RECURSIVE SelectImages(_, _)
SelectImages(folder_path, listing) ==
    IF listing = <<>> THEN <<>>
    ELSE (IF IsValidImage(Head(listing))
          THEN <<PathJoin(folder_path, Head(listing))>> ELSE <<>>)
         \o SelectImages(folder_path, Tail(listing))

get_images_from_folder(folder_path, listing) == SelectImages(folder_path, listing)

\* Line 23: parts[0].startswith('Dev')
IsDeveloperPart(part) == StartsWith(part, Dev)

\* grouped_images[dev_indicator].append(img_path) on a dict kept as the
\* sequence of its items in insertion order.
DictAppend(d, key, val) ==
    IF \E k \in 1..Len(d) : d[k].key = key
    THEN [k \in 1..Len(d) |->
            IF d[k].key = key THEN [d[k] EXCEPT !.val = Append(@, val)] ELSE d[k]]
    ELSE Append(d, [key |-> key, val |-> <<val>>])

\* The loop of lines 20-27.
RECURSIVE GroupLoop(_, _)
GroupLoop(d, imgs) ==
    IF imgs = <<>> THEN d
    ELSE LET img_path == Head(imgs)
             parts0 == FirstPart(Basename(img_path))
         IN  GroupLoop(IF IsDeveloperPart(parts0) THEN DictAppend(d, parts0, img_path) ELSE d,
                       Tail(imgs))

\* lst[-limit:], which keeps the last elements
SliceLast(lst, limit) == SubSeq(lst, Max(1, Len(lst) - limit + 1), Len(lst))

\* lst[:limit] for limit >= 0
SliceTo(lst, limit) == SubSeq(lst, 1, Min(limit, Len(lst)))

group_images_by_developer(imgs, limit) ==
    LET d == GroupLoop(<<>>, imgs)
    IN  [k \in 1..Len(d) |-> [d[k] EXCEPT !.val = SliceTo(@, limit)]]

\* list(d.values())
DictValues(d) == [k \in 1..Len(d) |-> d[k].val]

----------------------------------------------------------------------------
(* GroupSpec: group_images_by_developer on bounded inputs *)

P_ == <<"p","/">>

PathPool ==
    { P_ \o Dev \o <<"1","_","a">> \o PNG,                       \* p/Dev1_a.png
      P_ \o Dev \o <<"1","_","b">> \o PNG,                       \* p/Dev1_b.png
      Dev \o <<"1","_","c">> \o PNG,                             \* Dev1_c.png
      P_ \o Dev \o <<"3","_","x","_","y">> \o PNG,               \* p/Dev3_x_y.png
      P_ \o <<"d","e","v","e","l","o","p","e","r","1","_","a">> \o PNG, \* p/developer1_a.png
      Dev \o <<"_","x","/","i","m","g","_","1">> \o PNG,         \* Dev_x/img_1.png
      P_ \o <<"x">> \o Dev \o <<"1","_","a">> \o PNG }           \* p/xDev1_a.png

SeqsUpTo(S, n) == UNION {[1..k -> S] : k \in 0..n}

MainIdle ==
    /\ pc = "off" /\ pictures = <<>> /\ cpu_count = 1 /\ images = <<>>
    /\ groups = <<>> /\ fut = <<>> /\ step = <<>> /\ tool_exit = <<>> /\ work_queue = <<>>
    /\ intermediate_videos = <<>> /\ raised = FALSE /\ files = <<>>
    /\ writers = <<>> /\ grid_inputs = <<>> /\ overtaken = FALSE

GroupIdle ==
    g_pc = "off" /\ g_images = <<>> /\ g_limit = 0 /\ g_out = <<>>

RenameIdle ==
    /\ r_pc = "off" /\ r_platform = "posix" /\ r_exists = TRUE /\ r_folder = {}
    /\ r_initial = {} /\ r_after1 = {} /\ r_listing = <<>> /\ r_idx = 0
    /\ r_pass = 1 /\ r_log = <<>> /\ r_err = "none"

GroupInit ==
    /\ MainIdle /\ RenameIdle
    /\ g_pc = "call"
    /\ g_images \in SeqsUpTo(PathPool, MaxImages)
    /\ g_limit \in 0..MaxLimit
    /\ g_out = <<>>

GroupCall ==
    /\ g_pc = "call"
    /\ g_out' = group_images_by_developer(g_images, g_limit)
    /\ g_pc' = "returned"
    /\ UNCHANGED <<g_images, g_limit, mainVars, renameVars>>

GroupNext == GroupCall

GroupSpec == GroupInit /\ [][GroupNext]_vars

----------------------------------------------------------------------------
(* program.py: the per-group encoder and the dispatcher *)

img_folder == <<"p","i","c","t","u","r","e","s">>

temp_dir == <<"t","e","m","p">>

output_path == <<"d","e","v","_","g","r","o","u","p","e","d","_","v","i","d","e","o",".","m","p","4">>

\* limit=20000000 in main
GroupLimit == 20000000

\* [:4] in main
GridGroups == 4

\* ThreadPoolExecutor(): max_workers = min(32, (os.cpu_count() or 1) + 4)
max_workers == Min(32, cpu_count + 4)

GroupStem == <<"g","r","o","u","p">>

\* os.path.join(temp_dir, f"group_{group_index}.txt")
ManifestPath(group_index) ==
    PathJoin(temp_dir, GroupStem \o <<"_">> \o IntToStr(group_index) \o <<".","t","x","t">>)

\* os.path.join(temp_dir, "group.mp4"): a name that ignores the group index
ClipPathShared(group_index) == PathJoin(temp_dir, GroupStem \o <<".","m","p","4">>)

\* os.path.join(temp_dir, f"group_{group_index}.mp4")
ClipPath(group_index) ==
    PathJoin(temp_dir, GroupStem \o <<"_">> \o IntToStr(group_index) \o <<".","m","p","4">>)

NumGroups == Len(groups)

\* the indexes enumerate(groups) yields
Tasks == 0..(NumGroups - 1)

ScratchPaths(n) == {ManifestPath(i) : i \in 0..(n - 1)} \cup {ClipPath(i) : i \in 0..(n - 1)}

None == <<>>

NewFuture == [state |-> "NEW", result |-> None, exc |-> FALSE]

Running == {i \in Tasks : fut[i].state = "RUNNING"}

\* create_video_from_group without its try/except: CalledProcessError propagates
AfterRunNoExcept(group_index, exit) ==
    IF exit = "zero"
    THEN [state |-> "FINISHED", result |-> ClipPath(group_index), exc |-> FALSE]
    ELSE [state |-> "FINISHED", result |-> None, exc |-> TRUE]

\* Lines 58-65: what the call leaves in its future once subprocess.run has
\* returned or raised CalledProcessError: the clip path either way.
AfterRun(group_index, exit) ==
    [state |-> "FINISHED", result |-> ClipPath(group_index), exc |-> FALSE]

\* Collecting in completion order (as_completed): some finished future whose
\* result is not collected yet
NextCompleted ==
    LET ready == {i \in Tasks : fut[i].state = "FINISHED"
                                /\ fut[i].result \notin SeqRange(intermediate_videos)}
    IN  IF ready = {} THEN Len(intermediate_videos)
        ELSE CHOOSE i \in ready : \A j \in ready : j <= i

\* executor.map's result iterator: the futures are taken in submission order
NextToCollect == Len(intermediate_videos)

\* Call i returns while a call of a lower group index has not
Overtakes(i) == \E j \in Tasks : j < i /\ fut[j].state # "FINISHED"

\* A dispatcher that never blocks
NeverWaits == FALSE

\* Where the main thread blocks: future.result() inside list(executor.map(...))
\* and executor.shutdown(wait=True) when the with block is left.
MainWaits ==
    CASE pc = "collect" /\ Len(intermediate_videos) < NumGroups ->
            fut[NextToCollect].state \notin {"FINISHED", "CANCELLED"}
      [] pc = "exit_with" -> work_queue # <<>> \/ Running # {}
      [] OTHER -> FALSE

\* The pictures folder with n developer tags, two images per tag, one image
\* without a tag and one file that is no image.
PictureListing(n) ==
    [k \in 1..n |-> Dev \o IntToStr(k) \o <<"_","a">> \o PNG]
    \o << <<"n","o","t","e","s","_","1">> \o PNG, <<"r","e","a","d","m","e",".","t","x","t">> >>
    \o [k \in 1..n |-> Dev \o IntToStr(k) \o <<"_","b",".","J","P","G">>]

Init ==
    /\ GroupIdle /\ RenameIdle
    /\ pc = "start"
    /\ pictures \in {PictureListing(n) : n \in 0..MaxTags}
    /\ cpu_count \in 1..MaxCpu
    /\ images = <<>>
    /\ groups = <<>>
    /\ fut = <<>>
    /\ step = <<>>
    /\ tool_exit = <<>>
    /\ work_queue = <<>>
    /\ intermediate_videos = <<>>
    /\ raised = FALSE
    /\ files = <<>>
    /\ writers = <<>>
    /\ grid_inputs = <<>>
    /\ overtaken = FALSE

\* main, line 132
ListPictures ==
    /\ pc = "start"
    /\ images' = get_images_from_folder(img_folder, pictures)
    /\ pc' = "group"
    /\ UNCHANGED <<pictures, cpu_count, groups, fut, step, tool_exit, work_queue,
                   intermediate_videos, raised, files, writers, grid_inputs, overtaken,
                   groupVars, renameVars>>

\* main, lines 134-135, and the entry of create_video_from_grouped_images
GroupImages ==
    /\ pc = "group"
    /\ LET gs == SliceTo(DictValues(group_images_by_developer(images, GroupLimit)), GridGroups)
           n == Len(gs)
       IN  /\ groups' = gs
           /\ fut' = [i \in 0..(n - 1) |-> NewFuture]
           /\ step' = [i \in 0..(n - 1) |-> "idle"]
           /\ tool_exit' = [i \in 0..(n - 1) |-> "none"]
           /\ files' = [p \in ScratchPaths(n) \cup {output_path} |-> "absent"]
           /\ writers' = [p \in ScratchPaths(n) |-> {}]
    /\ pc' = "submit"
    /\ UNCHANGED <<pictures, cpu_count, images, work_queue, intermediate_videos,
                   raised, grid_inputs, overtaken, groupVars, renameVars>>

\* executor.map submits every call before it returns its iterator
Submit ==
    /\ pc = "submit"
    /\ \E i \in Tasks :
        /\ fut[i].state = "NEW"
        /\ \A j \in Tasks : j < i => fut[j].state # "NEW"
        /\ fut' = [fut EXCEPT ![i].state = "PENDING"]
        /\ work_queue' = Append(work_queue, i)
    /\ UNCHANGED <<pc, pictures, cpu_count, images, groups, step, tool_exit,
                   intermediate_videos, raised, files, writers, grid_inputs, overtaken,
                   groupVars, renameVars>>

MapReturns ==
    /\ pc = "submit"
    /\ \A i \in Tasks : fut[i].state # "NEW"
    /\ pc' = "collect"
    /\ UNCHANGED <<pictures, cpu_count, images, groups, fut, step, tool_exit, work_queue,
                   intermediate_videos, raised, files, writers, grid_inputs, overtaken,
                   groupVars, renameVars>>

\* A worker thread takes the head of the queue; a cancelled item is dropped,
\* any other starts create_video_from_group, which opens its manifest (line 38).
WorkerTake ==
    /\ work_queue # <<>>
    /\ Cardinality(Running) < max_workers
    /\ LET i == Head(work_queue)
       IN  /\ work_queue' = Tail(work_queue)
           /\ IF fut[i].state = "CANCELLED"
              THEN UNCHANGED <<fut, step, files, writers>>
              ELSE /\ fut' = [fut EXCEPT ![i].state = "RUNNING"]
                   /\ step' = [step EXCEPT ![i] = "manifest"]
                   /\ files' = [files EXCEPT ![ManifestPath(i)] = "partial"]
                   /\ writers' = [writers EXCEPT ![ManifestPath(i)] = @ \cup {i}]
    /\ UNCHANGED <<pc, pictures, cpu_count, images, groups, tool_exit,
                   intermediate_videos, raised, grid_inputs, overtaken, groupVars, renameVars>>

\* create_ffmpeg_input_file, lines 39-41: the lines are written, the file closed
WriteManifest(i) ==
    /\ step[i] = "manifest"
    /\ files' = [files EXCEPT ![ManifestPath(i)] = "complete"]
    /\ writers' = [writers EXCEPT ![ManifestPath(i)] = @ \ {i}]
    /\ step' = [step EXCEPT ![i] = "launch"]
    /\ UNCHANGED <<pc, pictures, cpu_count, images, groups, fut, tool_exit, work_queue,
                   intermediate_videos, raised, grid_inputs, overtaken, groupVars, renameVars>>

\* subprocess.run, line 59: the tool starts and opens its output (-y)
LaunchTool(i) ==
    /\ step[i] = "launch"
    /\ step' = [step EXCEPT ![i] = "tool"]
    /\ files' = [files EXCEPT ![ClipPath(i)] = "partial"]
    /\ writers' = [writers EXCEPT ![ClipPath(i)] = @ \cup {i}]
    /\ UNCHANGED <<pc, pictures, cpu_count, images, groups, fut, tool_exit, work_queue,
                   intermediate_videos, raised, grid_inputs, overtaken, groupVars, renameVars>>

\* subprocess.run, line 59: the binary cannot be started; the OSError is no
\* CalledProcessError and leaves create_video_from_group
LaunchFails(i) ==
    /\ step[i] = "launch"
    /\ step' = [step EXCEPT ![i] = "returned"]
    /\ tool_exit' = [tool_exit EXCEPT ![i] = "oserror"]
    /\ fut' = [fut EXCEPT ![i] = [state |-> "FINISHED", result |-> None, exc |-> TRUE]]
    /\ overtaken' = (overtaken \/ Overtakes(i))
    /\ UNCHANGED <<pc, pictures, cpu_count, images, groups, work_queue,
                   intermediate_videos, raised, files, writers, grid_inputs,
                   groupVars, renameVars>>

\* The tool exits: with 0 the clip is complete, otherwise it is missing or partial
ToolExit(i) ==
    /\ step[i] = "tool"
    /\ \E exit \in {"zero", "nonzero"} :
        /\ tool_exit' = [tool_exit EXCEPT ![i] = exit]
        /\ \E left \in (IF exit = "zero" THEN {"complete"} ELSE {"absent", "partial"}) :
              files' = [files EXCEPT ![ClipPath(i)] = left]
        /\ fut' = [fut EXCEPT ![i] = AfterRun(i, exit)]
    /\ writers' = [writers EXCEPT ![ClipPath(i)] = @ \ {i}]
    /\ step' = [step EXCEPT ![i] = "returned"]
    /\ overtaken' = (overtaken \/ Overtakes(i))
    /\ UNCHANGED <<pc, pictures, cpu_count, images, groups, work_queue,
                   intermediate_videos, raised, grid_inputs, groupVars, renameVars>>

\* list(executor.map(...)), lines 78-81: the next result is appended; a future
\* holding an exception re-raises it, and the iterator cancels the futures it
\* has not yielded yet
Collect ==
    /\ pc = "collect"
    /\ Len(intermediate_videos) < NumGroups
    /\ ~MainWaits
    /\ LET i == NextToCollect
       IN  IF fut[i].exc
           THEN /\ raised' = TRUE
                /\ fut' = [j \in Tasks |->
                            IF j > i /\ fut[j].state = "PENDING"
                            THEN [fut[j] EXCEPT !.state = "CANCELLED"] ELSE fut[j]]
                /\ pc' = "exit_with"
                /\ UNCHANGED intermediate_videos
           ELSE /\ intermediate_videos' = Append(intermediate_videos, fut[i].result)
                /\ UNCHANGED <<pc, raised, fut>>
    /\ UNCHANGED <<pictures, cpu_count, images, groups, step, tool_exit, work_queue,
                   files, writers, grid_inputs, overtaken, groupVars, renameVars>>

CollectDone ==
    /\ pc = "collect"
    /\ Len(intermediate_videos) = NumGroups
    /\ pc' = "exit_with"
    /\ UNCHANGED <<pictures, cpu_count, images, groups, fut, step, tool_exit, work_queue,
                   intermediate_videos, raised, files, writers, grid_inputs, overtaken,
                   groupVars, renameVars>>

\* The with block is left (line 81): shutdown(wait=True) joins the workers; a
\* propagating exception then leaves main
ExitWith ==
    /\ pc = "exit_with"
    /\ ~MainWaits
    /\ pc' = IF raised THEN "crashed" ELSE "compose"
    /\ UNCHANGED <<pictures, cpu_count, images, groups, fut, step, tool_exit, work_queue,
                   intermediate_videos, raised, files, writers, grid_inputs, overtaken,
                   groupVars, renameVars>>

\* Lines 89-108: one -i per collected clip, then the tool is started
StartGrid ==
    /\ pc = "compose"
    /\ grid_inputs' = intermediate_videos
    /\ files' = [files EXCEPT ![output_path] = "partial"]
    /\ pc' = "grid"
    /\ UNCHANGED <<pictures, cpu_count, images, groups, fut, step, tool_exit, work_queue,
                   intermediate_videos, raised, writers, overtaken, groupVars, renameVars>>

\* Lines 108-115: the grid tool exits; either way main returns normally
GridExit ==
    /\ pc = "grid"
    /\ \E left \in {"complete", "partial", "absent"} :
          files' = [files EXCEPT ![output_path] = left]
    /\ pc' = "done"
    /\ UNCHANGED <<pictures, cpu_count, images, groups, fut, step, tool_exit, work_queue,
                   intermediate_videos, raised, writers, grid_inputs, overtaken,
                   groupVars, renameVars>>

Encoder == \E i \in Tasks : WriteManifest(i) \/ LaunchTool(i) \/ LaunchFails(i) \/ ToolExit(i)

Next ==
    \/ ListPictures
    \/ GroupImages
    \/ Submit
    \/ MapReturns
    \/ WorkerTake
    \/ Encoder
    \/ Collect
    \/ CollectDone
    \/ ExitWith
    \/ StartGrid
    \/ GridExit

Spec == Init /\ [][Next]_vars

GridStarted == pc \in {"grid", "done"}

----------------------------------------------------------------------------
(* rename.py *)

\* The tuple of line 16
rename_extensions ==
    { PNG, <<".","j","p","g">>, <<".","j","p","e","g">>, <<".","g","i","f">>,
      <<".","b","m","p">>, <<".","t","i","f","f">>, <<".","w","e","b","p">> }

IsRenameImage(file_name) ==
    LET low == Lower(file_name) IN \E e \in rename_extensions : EndsWith(low, e)

\* The ways r'(.*_fn)(\d+)(\..+)' can match file_name from its start, as
\* <<length of group 1, length of group 2>>: group 1 ends with "_fn", group 2
\* is one or more digits, group 3 is a "." and at least one more character.
FnSplits(file_name) ==
    { ab \in {a \in 3..Len(file_name) : SubSeq(file_name, a - 2, a) = FN}
              \X (1..Len(file_name)) :
        /\ ab[1] + ab[2] + 2 <= Len(file_name)
        /\ \A k \in (ab[1] + 1)..(ab[1] + ab[2]) : IsDigit(file_name[k])
        /\ file_name[ab[1] + ab[2] + 1] = "." }

\* re.search: both quantifiers are greedy, the first takes precedence
FnMatch(file_name) ==
    LET splits == FnSplits(file_name)
        best == CHOOSE ab \in splits :
                    \A cd \in splits : cd[1] < ab[1] \/ (cd[1] = ab[1] /\ cd[2] <= ab[2])
    IN  [prefix |-> SubSeq(file_name, 1, best[1]),
         number |-> SubSeq(file_name, best[1] + 1, best[1] + best[2]),
         suffix |-> SubSeq(file_name, best[1] + best[2] + 1, Len(file_name))]

\* Line 16 and line 19: the file is an image and the pattern matches
ToRename(file_name) == IsRenameImage(file_name) /\ FnSplits(file_name) # {}

\* Lines 20-28
NewFileName(file_name) ==
    LET m == FnMatch(file_name)
    IN  m.prefix \o Format06(StrToInt(m.number)) \o m.suffix

\* os.rename(old, new) in a folder holding `names`: a missing source raises;
\* an existing target is replaced on POSIX and raises on Windows; renaming a
\* file to its own name does nothing.
RenameOutcome(platform, names, old, new) ==
    IF old \notin names THEN "FileNotFoundError"
    ELSE IF new \in names /\ new # old /\ platform = "nt" THEN "FileExistsError"
    ELSE "ok"

\* Only the first except clause: any other exception leaves the function
HandlerNotFoundOnly(exc) == IF exc = "FileNotFoundError" THEN "notfound" ELSE "propagates"

\* Lines 37-40: what the except clauses report for an exception
Handler(exc) == IF exc = "FileNotFoundError" THEN "notfound" ELSE "error"

\* The try encloses the whole loop (lines 12-14): an exception ends it
AfterError == "done"

X_ == <<"x">>

RenamePool ==
    { X_ \o FN \o <<"1">> \o PNG,                                \* x_fn1.png
      X_ \o FN \o <<"0","1">> \o PNG,                            \* x_fn01.png
      X_ \o FN \o <<"0","0","0","0","0","1">> \o PNG,            \* x_fn000001.png
      <<"y">> \o FN \o <<"4","2",".","J","P","G">>,              \* y_fn42.JPG
      <<"p","r","o","j","_","o","t","h","e","r">> \o PNG,        \* proj_other.png
      X_ \o FN \o <<"7",".","t","x","t">>,                       \* x_fn7.txt
      <<"a">> \o FN \o <<"1">> \o FN \o <<"2",".","g","i","f">>,  \* a_fn1_fn2.gif
      <<"z">> \o FN \o <<"1","2","3","4","5","6","7">> \o PNG }  \* z_fn1234567.png

\* os.listdir returns the names in arbitrary order
Listings(names) ==
    {l \in [1..Cardinality(names) -> names] : \A a, b \in DOMAIN l : a # b => l[a] # l[b]}

RenameInit ==
    /\ MainIdle /\ GroupIdle
    /\ r_pc = "listdir"
    /\ r_platform \in {"posix", "nt"}
    /\ r_exists \in BOOLEAN
    /\ r_folder \in {f \in SUBSET RenamePool : Cardinality(f) <= MaxFiles}
    /\ ~r_exists => r_folder = {}
    /\ r_initial = r_folder
    /\ r_after1 = {}
    /\ r_listing = <<>>
    /\ r_idx = 0
    /\ r_pass = 1
    /\ r_log = <<>>
    /\ r_err = "none"

\* Line 14, os.listdir(folder_path)
ListDir ==
    /\ r_pc = "listdir"
    /\ r_exists
    /\ r_listing' \in Listings(r_folder)
    /\ r_idx' = 0
    /\ r_pc' = "loop"
    /\ UNCHANGED <<r_platform, r_exists, r_folder, r_initial, r_after1, r_pass,
                   r_log, r_err, mainVars, groupVars>>

\* Line 14 on a missing folder, then lines 37-38
ListDirFails ==
    /\ r_pc = "listdir"
    /\ ~r_exists
    /\ r_err' = Handler("FileNotFoundError")
    /\ r_pc' = IF r_err' = "propagates" THEN "raised" ELSE "done"
    /\ UNCHANGED <<r_platform, r_exists, r_folder, r_initial, r_after1, r_listing,
                   r_idx, r_pass, r_log, mainVars, groupVars>>

\* Lines 16-19: the entry is no image or does not match
SkipFile ==
    /\ r_pc = "loop"
    /\ r_idx < Len(r_listing)
    /\ ~ToRename(r_listing[r_idx + 1])
    /\ r_idx' = r_idx + 1
    /\ UNCHANGED <<r_pc, r_platform, r_exists, r_folder, r_initial, r_after1,
                   r_listing, r_pass, r_log, r_err, mainVars, groupVars>>

\* Lines 20-36: os.rename succeeds
RenameFile ==
    /\ r_pc = "loop"
    /\ r_idx < Len(r_listing)
    /\ LET file_name == r_listing[r_idx + 1]
           new_file_name == NewFileName(file_name)
       IN  /\ ToRename(file_name)
           /\ RenameOutcome(r_platform, r_folder, file_name, new_file_name) = "ok"
           /\ r_folder' = (r_folder \ {file_name}) \cup {new_file_name}
           /\ r_log' = Append(r_log, <<file_name, new_file_name>>)
    /\ r_idx' = r_idx + 1
    /\ UNCHANGED <<r_pc, r_platform, r_exists, r_initial, r_after1, r_listing,
                   r_pass, r_err, mainVars, groupVars>>

\* Lines 20-35 when os.rename raises, then lines 37-40
RenameFails ==
    /\ r_pc = "loop"
    /\ r_idx < Len(r_listing)
    /\ LET file_name == r_listing[r_idx + 1]
           exc == RenameOutcome(r_platform, r_folder, file_name, NewFileName(file_name))
       IN  /\ ToRename(file_name)
           /\ exc # "ok"
           /\ r_err' = Handler(exc)
           /\ r_pc' = IF r_err' = "propagates" THEN "raised" ELSE AfterError
    /\ r_idx' = r_idx + 1
    /\ UNCHANGED <<r_platform, r_exists, r_folder, r_initial, r_after1, r_listing,
                   r_pass, r_log, mainVars, groupVars>>

\* The listing is exhausted: the function returns
LoopEnd ==
    /\ r_pc = "loop"
    /\ r_idx = Len(r_listing)
    /\ r_pc' = "done"
    /\ UNCHANGED <<r_platform, r_exists, r_folder, r_initial, r_after1, r_listing,
                   r_idx, r_pass, r_log, r_err, mainVars, groupVars>>

\* The script is run again on the same folder (line 43)
SecondPass ==
    /\ r_pc = "done"
    /\ r_pass = 1
    /\ r_pass' = 2
    /\ r_after1' = r_folder
    /\ r_listing' = <<>>
    /\ r_idx' = 0
    /\ r_log' = <<>>
    /\ r_err' = "none"
    /\ r_pc' = "listdir"
    /\ UNCHANGED <<r_platform, r_exists, r_folder, r_initial, mainVars, groupVars>>

RenameNext ==
    \/ ListDir
    \/ ListDirFails
    \/ SkipFile
    \/ RenameFile
    \/ RenameFails
    \/ LoopEnd
    \/ SecondPass

RenameSpec == RenameInit /\ [][RenameNext]_vars

----------------------------------------------------------------------------
(* Claims: program.py *)

\* temp/group_<i>.mp4 and temp/group_<i>.txt, spelled out
ExpectedClip(i) ==
    <<"t","e","m","p","/","g","r","o","u","p","_">> \o IntToStr(i) \o <<".","m","p","4">>

ExpectedManifest(i) ==
    <<"t","e","m","p","/","g","r","o","u","p","_">> \o IntToStr(i) \o <<".","t","x","t">>

\* C1: whatever order the encoder calls finish in, the k-th collected entry is
\* the clip path of group index k-1, and once collection is over the list has
\* one entry per group.
C1_OrderPreserved ==
    /\ \A k \in 1..Len(intermediate_videos) : intermediate_videos[k] = ExpectedClip(k - 1)
    /\ (pc \in {"compose", "grid", "done"}) => Len(intermediate_videos) = NumGroups

\* Four groups were collected although some call finished before a call of a
\* lower index.
C1_Witness ==
    /\ pc = "compose"
    /\ NumGroups = GridGroups
    /\ overtaken
    /\ Len(intermediate_videos) = GridGroups

\* C2: once the grid tool has been started, every encoder call has returned:
\* none is queued, running or yet to be submitted.
C2_Barrier ==
    GridStarted =>
        /\ work_queue = <<>>
        /\ \A i \in Tasks : fut[i].state = "FINISHED" /\ step[i] = "returned"

\* The grid tool runs after four encoders of which one failed and one succeeded.
C2_Witness ==
    /\ pc = "grid"
    /\ NumGroups = GridGroups
    /\ \E i, j \in Tasks : tool_exit[i] = "nonzero" /\ tool_exit[j] = "zero"

\* C3: once the grid tool has been started, every clip path passed to it names
\* a file that exists, and no encoder has a clip open for writing.
C3_ClipsExist ==
    GridStarted =>
        \A k \in 1..Len(grid_inputs) :
            /\ files[grid_inputs[k]] # "absent"
            /\ writers[grid_inputs[k]] = {}

\* C4: no file is open for writing by two encoder calls at once, call i writes
\* only group_<i>.txt and group_<i>.mp4, and the file sets of two calls are
\* disjoint.
C4_NoSharedWrites ==
    /\ \A p \in DOMAIN writers :
          /\ Cardinality(writers[p]) <= 1
          /\ \A i \in writers[p] : p \in {ExpectedManifest(i), ExpectedClip(i)}
    /\ \A i, j \in Tasks :
          i # j => {ManifestPath(i), ClipPath(i)} \cap {ManifestPath(j), ClipPath(j)} = {}

\* Two encoder calls write their clips at the same time while a third writes
\* its manifest.
C4_Witness ==
    \E i, j, k \in Tasks :
        /\ i # j
        /\ step[i] = "tool" /\ step[j] = "tool" /\ step[k] = "manifest"
        /\ writers[ClipPath(i)] = {i} /\ writers[ClipPath(j)] = {j}
        /\ writers[ManifestPath(k)] = {k}

\* C5: a non-zero exit of the tool leaves the clip path, not an exception, in
\* the call's future; only a call that could not start its tool makes the
\* dispatch raise or cancels another call; the grid tool gets one path per
\* group, in order; and main never stops short of the grid step for any other
\* reason.
C5_FailureTolerated ==
    /\ \A i \in Tasks :
          tool_exit[i] = "nonzero" =>
              fut[i] = [state |-> "FINISHED", result |-> ExpectedClip(i), exc |-> FALSE]
    /\ (raised \/ \E i \in Tasks : fut[i].state = "CANCELLED")
          => \E i \in Tasks : tool_exit[i] = "oserror"
    /\ GridStarted => grid_inputs = [k \in 1..NumGroups |-> ExpectedClip(k - 1)]
    /\ (pc \in {"submit", "collect", "exit_with", "compose", "grid"}) =>
          ENABLED (Submit \/ MapReturns \/ WorkerTake \/ Encoder \/ Collect
                   \/ CollectDone \/ ExitWith \/ StartGrid \/ GridExit)

\* main is over; one tool exited non-zero and left no clip, another succeeded,
\* and the grid tool was given the missing clip's path.
C5_Witness ==
    /\ pc = "done"
    /\ \E i, j \in Tasks :
          /\ tool_exit[i] = "nonzero" /\ files[ClipPath(i)] = "absent"
          /\ tool_exit[j] = "zero" /\ files[ClipPath(j)] = "complete"
          /\ grid_inputs[i + 1] = ExpectedClip(i)

\* C9: the grid tool is started with exactly four inputs.
C9_FourInputs == GridStarted => Len(grid_inputs) = 4

----------------------------------------------------------------------------
(* Claims: group_images_by_developer *)

\* The part of a path after its last "/", up to its first "_", stated as a
\* property of the result rather than computed.
C6_Tag(path) ==
    LET start == CHOOSE s \in 0..Len(path) :
                    /\ s = 0 \/ path[s] = "/"
                    /\ \A k \in (s + 1)..Len(path) : path[k] # "/"
        stop == CHOOSE e \in start..Len(path) :
                    /\ e = Len(path) \/ path[e + 1] = "_"
                    /\ \A k \in (start + 1)..e : path[k] # "_"
    IN  [k \in 1..(stop - start) |-> path[start + k]]

C6_IsDev(tag) == Len(tag) >= 3 /\ tag[1] = "D" /\ tag[2] = "e" /\ tag[3] = "v"

C6_Developer1 == P_ \o <<"d","e","v","e","l","o","p","e","r","1","_","a">> \o PNG

\* C6: every key is a first segment that starts with "Dev"; keys are unique;
\* a key maps to the first min(N, M) of the M input paths with that first
\* segment, in input order; every "Dev" segment of the input is a key; a path
\* with another first segment (developer1) is in no group; no match gives the
\* empty mapping.
C6_Grouping ==
    g_pc = "returned" =>
        /\ \A k \in 1..Len(g_out) :
              LET T == g_out[k].key
                  mine == SelectSeq(g_images, LAMBDA p : C6_Tag(p) = T)
              IN  /\ C6_IsDev(T)
                  /\ Len(mine) >= 1
                  /\ g_out[k].val = SubSeq(mine, 1, Min(g_limit, Len(mine)))
        /\ \A k, l \in 1..Len(g_out) : k # l => g_out[k].key # g_out[l].key
        /\ \A j \in 1..Len(g_images) :
              IF C6_IsDev(C6_Tag(g_images[j]))
              THEN \E k \in 1..Len(g_out) : g_out[k].key = C6_Tag(g_images[j])
              ELSE \A k \in 1..Len(g_out) : g_images[j] \notin SeqRange(g_out[k].val)
        /\ \A k \in 1..Len(g_out) : C6_Developer1 \notin SeqRange(g_out[k].val)
        /\ (\A j \in 1..Len(g_images) : ~C6_IsDev(C6_Tag(g_images[j]))) => g_out = <<>>

\* Of two Dev1 images with developer1 between them, a cap of 1 kept the first
\* only.
C6_Witness ==
    /\ g_pc = "returned"
    /\ g_limit = 1
    /\ Len(g_images) = 3
    /\ g_images[2] = C6_Developer1
    /\ g_images[1] # g_images[3]
    /\ C6_Tag(g_images[1]) = C6_Tag(g_images[3])
    /\ g_out = <<[key |-> Dev \o <<"1">>, val |-> <<g_images[1]>>]>>

----------------------------------------------------------------------------
(* Claims: rename.py *)

\* C7: on an existing folder the second pass renames nothing to a new name,
\* reports no error and leaves the folder as the first pass left it.
C7_SecondPassNoChange ==
    (r_exists /\ r_pass = 2 /\ r_pc = "done") =>
        /\ r_folder = r_after1
        /\ r_err = "none"
        /\ \A k \in 1..Len(r_log) : r_log[k][1] = r_log[k][2]

\* The names the current pass started from
C8_PassStart == IF r_pass = 1 THEN r_initial ELSE r_after1

\* C8: no exception leaves rename_files_in_folder; a missing folder is
\* reported with nothing renamed; after an exception in the loop the function
\* is over, the renames done before it stand, and the failing entry and every
\* later entry of the listing are still in the folder and were never renamed.
C8_ErrorsContained ==
    /\ r_pc # "raised"
    /\ (~r_exists /\ r_pc = "done") =>
          r_err = "notfound" /\ r_log = <<>> /\ r_folder = r_initial
    /\ (r_exists /\ r_err # "none") =>
          /\ r_pc = "done"
          /\ \A k \in 1..Len(r_log) :
                /\ r_log[k][1] \in {r_listing[j] : j \in 1..(r_idx - 1)}
                /\ r_log[k][2] \in r_folder
          /\ \A j \in r_idx..Len(r_listing) :
                /\ r_listing[j] \in r_folder
                /\ \A k \in 1..Len(r_log) : r_log[k][1] # r_listing[j]
          /\ Cardinality(r_folder) = Cardinality(C8_PassStart)

\* os.rename raised on the second entry of three: the first entry is renamed,
\* the third is not.
C8_Witness ==
    /\ r_pc = "done"
    /\ r_err = "error"
    /\ Len(r_listing) = 3
    /\ r_idx = 2
    /\ Len(r_log) = 1
    /\ r_log[1][1] # r_log[1][2]
    /\ ToRename(r_listing[3])
    /\ NewFileName(r_listing[3]) # r_listing[3]

\* C10: a completed pass leaves as many files as it found, and no two names
\* of the folder are renamed to one target.
C10_NoFileLost ==
    (r_exists /\ r_pc = "done" /\ r_pass = 1 /\ r_err = "none") =>
        /\ Cardinality(r_folder) = Cardinality(r_initial)
        /\ \A k, l \in 1..Len(r_log) : k # l => r_log[k][2] # r_log[l][2]

====
